---- MODULE Spec2Model ----
(***************************************************************************)
(* A model of reprodl: the ESC-50 dataset (training.py, ESC50Dataset), the *)
(* AudioNet classifier (training.py, AudioNet), the entry point train()    *)
(* and the overfit regression test (test_audionet.py).                     *)
(*                                                                         *)
(* Four specifications share the variables; each drives one part of the    *)
(* program and leaves the others at rest:                                  *)
(*   SpecData   a dataset is constructed and items are fetched by workers  *)
(*   SpecNet    a network is constructed and applied to an input           *)
(*   SpecTrain  the entry point train(cfg)                                 *)
(*   SpecTest   testAudioNet: 250 epochs on one overfit batch              *)
(***************************************************************************)
EXTENDS Integers, Sequences, FiniteSets, TLC

VARIABLES
    \* ---- dataset (SpecData)
    manifest,   \* rows of meta/esc50.csv, in file order
    disk,       \* audio/<filename> -> waveform, or Missing
    foldsArg,   \* the folds argument of the constructor
    rateArg,    \* the sample_rate argument of the constructor
    ds,         \* the ESC50Dataset object, or NoObject before construction
    wpc,        \* per worker: position inside __getitem__
    wloc,       \* per worker: the frame of its call (index, row, wav, ret)
    run,        \* "running" | "failed": an uncaught exception ends the run
    \* ---- network (SpecNet)
    hp,         \* hparams: base_filters, num_classes
    xin,        \* the input's shape <<N, C, H, W>>
    training,   \* module in training mode (batch statistics) or eval mode
    net,        \* the AudioNet object, or NoObject
    yout,       \* forward's result: a shape, an Err record, or NoObject
    \* ---- entry point (SpecTrain)
    cfg,        \* the composed configuration: field -> value or Missing
    sweep,      \* values the sweep service supplies to wandb.config
    csvFolds,   \* fold column of the manifest train() reads
    audioOk,    \* every audio file of the manifest can be loaded
    tpc,        \* position inside train()
    env,        \* train()'s locals and the process-wide effects so far
    \* ---- overfit test (SpecTest)
    tt          \* the state of testAudioNet

vars == <<manifest, disk, foldsArg, rateArg, ds, wpc, wloc, run,
          hp, xin, training, net, yout,
          cfg, sweep, csvFolds, audioOk, tpc, env, tt>>

dataVars == <<manifest, disk, foldsArg, rateArg, ds, wpc, wloc, run>>
netVars == <<hp, xin, training, net, yout>>
trainVars == <<cfg, sweep, csvFolds, audioOk, tpc, env>>
testVars == <<tt>>

NoObject == [kind |-> "none"]
Missing == "MISSING"

\* An exception raised and not caught.
Err(type, where) == [kind |-> "error", type |-> type, at |-> where]

IsErr(v) == v.kind = "error"

----------------------------------------------------------------------------
(* Bounds of the model *)

MaxRows == 2                        \* manifest rows
NumWorkers == 2                     \* concurrent callers of __getitem__
Workers == 1..NumWorkers
ManifestFolds == {1, 2}             \* fold ids occurring in a manifest
FoldIds == ManifestFolds \cup {3}   \* fold 3 occurs in no manifest
Targets == {0, 1}
FileName(i) == <<"clip", i>>
Rates == {8000, 16000}

----------------------------------------------------------------------------
(* ESC50Dataset *)

DefaultSampleRate == 8000
OrigFreq == 44100
TopDb == 80

\* The filter computed and dropped: self.csv[self.csv["fold"].isin(folds)]
\* without the assignment.
SelectRowsUnassigned(rows, folds) == rows

RECURSIVE SelectRows(_, _)
\* csv[csv["fold"].isin(folds)]: the rows whose fold is in folds, in order.
SelectRows(rows, folds) ==
    IF rows = <<>> THEN <<>>
    ELSE IF Head(rows).fold \in folds
         THEN <<Head(rows)>> \o SelectRows(Tail(rows), folds)
         ELSE SelectRows(Tail(rows), folds)

\* The three torchaudio transforms, as terms over the waveform.
Resample(orig, new, wav) == [op |-> "resample", orig_freq |-> orig, new_freq |-> new, x |-> wav]
MelSpectrogram(rate, x) == [op |-> "melspec", sample_rate |-> rate, x |-> x]
AmplitudeToDB(top, x) == [op |-> "db", top_db |-> top, x |-> x]

\* ESC50Dataset.__init__(path, sample_rate, folds)
ESC50Dataset_init(path, sample_rate, folds, rows) ==
    [kind |-> "dataset",
     path |-> path,
     csv |-> SelectRows(rows, folds),
     resample |-> [orig_freq |-> OrigFreq, new_freq |-> sample_rate],
     melspec |-> [sample_rate |-> sample_rate],
     db |-> [top_db |-> TopDb]]

\* ESC50Dataset.__len__
ESC50Dataset_len(d) == Len(d.csv)

\* row = self.csv.iloc[index], for 0 <= index < len
Iloc(d, index) == d.csv[index + 1]

\* torchaudio.load(self.path / "audio" / row["filename"])
TorchaudioLoad(files, name) ==
    IF files[name] = Missing THEN Err("LoadError", "getitem") ELSE [kind |-> "wav", data |-> files[name]]

\* xb = self.db(self.melspec(self.resample(wav)))
Features(d, wav) ==
    AmplitudeToDB(d.db.top_db,
        MelSpectrogram(d.melspec.sample_rate,
            Resample(d.resample.orig_freq, d.resample.new_freq, wav.data)))

\* A call's frame: the argument and the locals of __getitem__.
Frame(index) == [index |-> index, row |-> NoObject, wav |-> NoObject, ret |-> NoObject]

\* Each statement of __getitem__ maps the object and the frame to the object
\* and the frame after it.
\* line 44: row = self.csv.iloc[index]
Getitem_row(self, files, l) ==
    [self |-> self, l |-> [l EXCEPT !.row = Iloc(self, l.index)]]

\* The file's path built into self.path instead of a temporary.
GetitemLoadKeepsPath(self, files, l) ==
    [self |-> [self EXCEPT !.path = <<self.path, "audio", l.row.filename>>],
     l |-> [l EXCEPT !.wav = TorchaudioLoad(files, l.row.filename)]]

\* The load wrapped in try/except, an empty waveform standing in for the file.
GetitemLoadOrSilence(self, files, l) ==
    [self |-> self,
     l |-> [l EXCEPT !.wav = IF files[l.row.filename] = Missing
                             THEN [kind |-> "wav", data |-> "silence"]
                             ELSE TorchaudioLoad(files, l.row.filename)]]

\* line 45: wav, _ = torchaudio.load(...); an exception leaves the frame
Getitem_load(self, files, l) ==
    [self |-> self, l |-> [l EXCEPT !.wav = TorchaudioLoad(files, l.row.filename)]]

\* lines 46-48: label = row["target"]; xb = ...; return xb, label
Getitem_return(self, files, l) ==
    [self |-> self,
     l |-> [l EXCEPT !.ret = [kind |-> "item", xb |-> Features(self, l.wav),
                              label |-> l.row.target]]]

\* ESC50Dataset.__getitem__ run from start to end by a single caller: the
\* value returned, or the exception raised.
ESC50Dataset_getitem(self, files, index) ==
    LET s1 == Getitem_row(self, files, Frame(index))
        s2 == Getitem_load(s1.self, files, s1.l)
    IN  IF IsErr(s2.l.wav) THEN s2.l.wav
        ELSE Getitem_return(s2.self, files, s2.l).l.ret

----------------------------------------------------------------------------
(* SpecData: construction, then workers fetching items in any interleaving *)

RowSet == [filename : {FileName(i) : i \in 1..MaxRows}, fold : ManifestFolds, target : Targets]

\* Manifests of at most MaxRows rows; row i names the file clip i.
Manifests ==
    UNION {{m \in [1..n -> RowSet] : \A i \in 1..n : m[i].filename = FileName(i)} : n \in 0..MaxRows}

\* Disks: every file is there, or one is missing or unreadable.
Disks ==
    LET names == {FileName(i) : i \in 1..MaxRows}
    IN  {[f \in names |-> "wav"]} \cup {[f \in names |-> IF f = g THEN Missing ELSE "wav"] : g \in names}

RestNet ==
    /\ hp = NoObject /\ xin = NoObject /\ training = FALSE
    /\ net = NoObject /\ yout = NoObject

RestTrain ==
    /\ cfg = NoObject /\ sweep = NoObject /\ csvFolds = <<>> /\ audioOk = TRUE
    /\ tpc = "rest" /\ env = NoObject

RestTest == tt = NoObject

RestData ==
    /\ manifest = <<>> /\ disk = <<>> /\ foldsArg = {} /\ rateArg = DefaultSampleRate
    /\ ds = NoObject /\ wpc = <<>> /\ wloc = <<>> /\ run = "rest"

InitData ==
    /\ manifest \in Manifests
    /\ disk \in Disks
    /\ foldsArg \in SUBSET FoldIds
    /\ rateArg = 16000      \* a rate other than the default
    /\ ds = NoObject
    /\ wpc = [w \in Workers |-> "idle"]
    /\ wloc = [w \in Workers |-> NoObject]
    /\ run = "running"
    /\ RestNet /\ RestTrain /\ RestTest

\* ESC50Dataset(path, sample_rate, folds)
Construct ==
    /\ run = "running" /\ ds = NoObject
    /\ ds' = ESC50Dataset_init("data/ESC-50", rateArg, foldsArg, manifest)
    /\ UNCHANGED <<manifest, disk, foldsArg, rateArg, wpc, wloc, run>>
    /\ UNCHANGED <<netVars, trainVars, testVars>>

\* A loader's worker calls dataset[index] with an index its sampler drew.
Call(w) ==
    /\ run = "running" /\ ds # NoObject /\ wpc[w] = "idle"
    /\ \E index \in 0..(ESC50Dataset_len(ds) - 1) :
          wloc' = [wloc EXCEPT ![w] = Frame(index)]
    /\ wpc' = [wpc EXCEPT ![w] = "line44"]
    /\ UNCHANGED <<manifest, disk, foldsArg, rateArg, ds, run>>
    /\ UNCHANGED <<netVars, trainVars, testVars>>

StepRow(w) ==
    /\ run = "running" /\ wpc[w] = "line44"
    /\ LET s == Getitem_row(ds, disk, wloc[w])
       IN  /\ ds' = s.self
           /\ wloc' = [wloc EXCEPT ![w] = s.l]
    /\ wpc' = [wpc EXCEPT ![w] = "line45"]
    /\ UNCHANGED <<manifest, disk, foldsArg, rateArg, run>>
    /\ UNCHANGED <<netVars, trainVars, testVars>>

\* The load; an exception is caught nowhere in __getitem__, the loader or
\* train(), so it ends the run.
StepLoad(w) ==
    /\ run = "running" /\ wpc[w] = "line45"
    /\ LET s == Getitem_load(ds, disk, wloc[w])
       IN  /\ ds' = s.self
           /\ IF IsErr(s.l.wav)
              THEN /\ wloc' = [wloc EXCEPT ![w] = [wloc[w] EXCEPT !.ret = s.l.wav]]
                   /\ wpc' = [wpc EXCEPT ![w] = "raised"]
                   /\ run' = "failed"
              ELSE /\ wloc' = [wloc EXCEPT ![w] = s.l]
                   /\ wpc' = [wpc EXCEPT ![w] = "line46"]
                   /\ run' = run
    /\ UNCHANGED <<manifest, disk, foldsArg, rateArg>>
    /\ UNCHANGED <<netVars, trainVars, testVars>>

StepReturn(w) ==
    /\ run = "running" /\ wpc[w] = "line46"
    /\ LET s == Getitem_return(ds, disk, wloc[w])
       IN  /\ ds' = s.self
           /\ wloc' = [wloc EXCEPT ![w] = s.l]
    /\ wpc' = [wpc EXCEPT ![w] = "returned"]
    /\ UNCHANGED <<manifest, disk, foldsArg, rateArg, run>>
    /\ UNCHANGED <<netVars, trainVars, testVars>>

\* The caller takes the pair; the worker is free for the next index.
Collect(w) ==
    /\ run = "running" /\ wpc[w] = "returned"
    /\ wpc' = [wpc EXCEPT ![w] = "idle"]
    /\ wloc' = [wloc EXCEPT ![w] = NoObject]
    /\ UNCHANGED <<manifest, disk, foldsArg, rateArg, ds, run>>
    /\ UNCHANGED <<netVars, trainVars, testVars>>

NextData ==
    \/ Construct
    \/ \E w \in Workers : Call(w)
    \/ \E w \in Workers : StepRow(w)
    \/ \E w \in Workers : StepLoad(w)
    \/ \E w \in Workers : StepReturn(w)
    \/ \E w \in Workers : Collect(w)

SpecData == InitData /\ [][NextData]_vars

----------------------------------------------------------------------------
(* Claims about the dataset, checked under SpecData *)

\* The manifest positions whose fold is in the fold set.
Retained(m, folds) == {i \in DOMAIN m : m[i].fold \in folds}

\* The position of the k-th (from 0) retained row, in manifest order.
NthRetained(m, folds, k) ==
    CHOOSE i \in Retained(m, folds) : Cardinality({j \in Retained(m, folds) : j < i}) = k

\* The dataset as the constructor leaves it.
Constructed == ESC50Dataset_init("data/ESC-50", rateArg, foldsArg, manifest)

\* C1: the length of a dataset equals the number of manifest rows whose fold
\* is in the fold set, and get(index), 0 <= index < length, returns the
\* target of the index-th such row in manifest order.
C1_LengthAndLabel ==
    ds # NoObject =>
        /\ ESC50Dataset_len(ds) = Cardinality(Retained(manifest, foldsArg))
        /\ \A index \in 0..(ESC50Dataset_len(ds) - 1) :
              Iloc(ds, index).target = manifest[NthRetained(manifest, foldsArg, index)].target
        /\ \A w \in Workers :
              wpc[w] = "returned" =>
                wloc[w].ret.label = manifest[NthRetained(manifest, foldsArg, wloc[w].index)].target

\* A call returned the label of the second manifest row as item 0, the first
\* row being filtered out and carrying another target.
C1_Witness ==
    /\ ds # NoObject /\ Len(manifest) = 2
    /\ manifest[1].fold \notin foldsArg /\ manifest[2].fold \in foldsArg
    /\ manifest[1].target # manifest[2].target
    /\ ESC50Dataset_len(ds) = 1
    /\ \E w \in Workers :
          wpc[w] = "returned" /\ wloc[w].index = 0 /\ wloc[w].ret.label = manifest[2].target

\* C6: under any interleaving of concurrent get(index) calls no call changes
\* the dataset (retained rows, path, transform configuration), and every
\* call ends as a sequential call with the same index on the same files ends.
C6_ReadOnlyDeterministic ==
    ds # NoObject =>
        /\ ds = Constructed
        /\ \A w \in Workers :
              wpc[w] \in {"returned", "raised"} =>
                wloc[w].ret = ESC50Dataset_getitem(Constructed, disk, wloc[w].index)

\* Two calls overlapped: one has returned while the other is inside the call.
C6_Witness ==
    \E w, v \in Workers :
        /\ w # v /\ wpc[w] = "returned" /\ wpc[v] \in {"line45", "line46"}
        /\ wloc[w].index # wloc[v].index

C7_State ==
    /\ \A w \in Workers :
          /\ wpc[w] = "raised" =>
                /\ disk[wloc[w].row.filename] = Missing
                /\ wloc[w].ret = Err("LoadError", "getitem")
                /\ run = "failed"
                /\ ds = Constructed
          /\ wpc[w] \in {"line46", "returned"} => disk[wloc[w].row.filename] # Missing
          /\ wpc[w] = "returned" => wloc[w].ret.kind = "item"
    /\ run = "failed" => \E w \in Workers : wpc[w] = "raised"

C7_Step == run = "failed" => UNCHANGED vars

\* C7: when the file of the index-th retained row is missing or unreadable,
\* get(index) raises a load error at the load: no pair is returned for that
\* index, the dataset is unchanged, and after the failure nothing runs any
\* more (no retry, no skip to another sample): the run has ended.
C7_LoadErrorFatal == []C7_State /\ [][C7_Step]_vars

\* A load failed while the other worker was inside a call of its own.
C7_Witness ==
    \E w, v \in Workers :
        /\ w # v /\ wpc[w] = "raised" /\ wpc[v] \in {"line44", "line45", "line46"}
        /\ run = "failed"

----------------------------------------------------------------------------
(* AudioNet *)

MaxFilters == 3     \* base_filters is 1..MaxFilters
MaxClasses == 3     \* num_classes is 1..MaxClasses
MaxBatch == 2       \* batch size N is 1..MaxBatch
MaxHW == 6          \* H and W are 1..MaxHW

Tensor(shape) == [kind |-> "tensor", shape |-> shape]

Conv2dLayer(in, out, k, pad) == [in_channels |-> in, out_channels |-> out, kernel |-> k, padding |-> pad]
BatchNorm2dLayer(n) == [num_features |-> n]
MaxPool2dLayer(k) == [kernel |-> k]
LinearLayer(in, out) == [in_features |-> in, out_features |-> out]

\* conv1 built without padding=5.
AudioNetInitNoPadding(hparams) ==
    LET F == hparams.base_filters
    IN  [kind |-> "AudioNet", hparams |-> hparams,
         conv1 |-> Conv2dLayer(1, F, 11, 0), bn1 |-> BatchNorm2dLayer(F),
         conv2 |-> Conv2dLayer(F, F, 3, 1), bn2 |-> BatchNorm2dLayer(F),
         pool1 |-> MaxPool2dLayer(2),
         conv3 |-> Conv2dLayer(F, F * 2, 3, 1), bn3 |-> BatchNorm2dLayer(F * 2),
         conv4 |-> Conv2dLayer(F * 2, F * 4, 3, 1), bn4 |-> BatchNorm2dLayer(F * 4),
         pool2 |-> MaxPool2dLayer(2),
         fc1 |-> LinearLayer(F * 4, hparams.num_classes)]

\* fc1 sized for the output of conv3 instead of conv4.
AudioNetInitNarrowFc(hparams) ==
    LET F == hparams.base_filters
    IN  [kind |-> "AudioNet", hparams |-> hparams,
         conv1 |-> Conv2dLayer(1, F, 11, 5), bn1 |-> BatchNorm2dLayer(F),
         conv2 |-> Conv2dLayer(F, F, 3, 1), bn2 |-> BatchNorm2dLayer(F),
         pool1 |-> MaxPool2dLayer(2),
         conv3 |-> Conv2dLayer(F, F * 2, 3, 1), bn3 |-> BatchNorm2dLayer(F * 2),
         conv4 |-> Conv2dLayer(F * 2, F * 4, 3, 1), bn4 |-> BatchNorm2dLayer(F * 4),
         pool2 |-> MaxPool2dLayer(2),
         fc1 |-> LinearLayer(F * 2, hparams.num_classes)]

\* AudioNet.__init__(hparams)
AudioNet_init(hparams) ==
    LET F == hparams.base_filters
    IN  [kind |-> "AudioNet", hparams |-> hparams,
         conv1 |-> Conv2dLayer(1, F, 11, 5), bn1 |-> BatchNorm2dLayer(F),
         conv2 |-> Conv2dLayer(F, F, 3, 1), bn2 |-> BatchNorm2dLayer(F),
         pool1 |-> MaxPool2dLayer(2),
         conv3 |-> Conv2dLayer(F, F * 2, 3, 1), bn3 |-> BatchNorm2dLayer(F * 2),
         conv4 |-> Conv2dLayer(F * 2, F * 4, 3, 1), bn4 |-> BatchNorm2dLayer(F * 4),
         pool2 |-> MaxPool2dLayer(2),
         fc1 |-> LinearLayer(F * 4, hparams.num_classes)]

\* Output size of a stride-1 convolution along one axis.
ConvOut(h, k, pad) == h + 2 * pad - k + 1

\* Output size of max-pool(k), stride k, along one axis: floor((h - k) / k) + 1.
PoolOut(h, k) == ((h - k) \div k) + 1

\* nn.Conv2d applied to x of shape <<N, C, H, W>>
Conv2d(layer, x) ==
    IF IsErr(x) THEN x
    ELSE LET h == ConvOut(x.shape[3], layer.kernel, layer.padding)
             w == ConvOut(x.shape[4], layer.kernel, layer.padding)
         IN  IF x.shape[2] # layer.in_channels THEN Err("RuntimeError", "conv channels")
             ELSE IF h <= 0 \/ w <= 0 THEN Err("RuntimeError", "conv kernel larger than input")
             ELSE Tensor(<<x.shape[1], layer.out_channels, h, w>>)

\* F.relu(nn.BatchNorm2d(x)): in training mode batch statistics need more
\* than one value per channel.
BatchNormRelu(layer, x, train) ==
    IF IsErr(x) THEN x
    ELSE IF x.shape[2] # layer.num_features THEN Err("RuntimeError", "batchnorm features")
    ELSE IF train /\ x.shape[1] * x.shape[3] * x.shape[4] = 1
         THEN Err("ValueError", "batchnorm one value per channel")
    ELSE x

\* nn.MaxPool2d(2)
MaxPool2d(layer, x) ==
    IF IsErr(x) THEN x
    ELSE LET h == PoolOut(x.shape[3], layer.kernel)
             w == PoolOut(x.shape[4], layer.kernel)
         IN  IF h <= 0 \/ w <= 0 THEN Err("RuntimeError", "pool output too small")
             ELSE Tensor(<<x.shape[1], x.shape[2], h, w>>)

\* F.adaptive_avg_pool2d(x, (1, 1))
AdaptiveAvgPool2d(x) ==
    IF IsErr(x) THEN x ELSE Tensor(<<x.shape[1], x.shape[2], 1, 1>>)

\* x[:, :, 0, 0]
Squeeze(x) ==
    IF IsErr(x) THEN x ELSE Tensor(<<x.shape[1], x.shape[2]>>)

\* nn.Linear
Linear(layer, x) ==
    IF IsErr(x) THEN x
    ELSE IF x.shape[Len(x.shape)] # layer.in_features THEN Err("RuntimeError", "linear features")
    ELSE Tensor(<<x.shape[1], layer.out_features>>)

\* AudioNet.forward(x)
AudioNet_forward(self, x, train) ==
    LET x1 == BatchNormRelu(self.bn1, Conv2d(self.conv1, x), train)
        x2 == BatchNormRelu(self.bn2, Conv2d(self.conv2, x1), train)
        x3 == MaxPool2d(self.pool1, x2)
        x4 == BatchNormRelu(self.bn3, Conv2d(self.conv3, x3), train)
        x5 == BatchNormRelu(self.bn4, Conv2d(self.conv4, x4), train)
        x6 == MaxPool2d(self.pool2, x5)
        x7 == AdaptiveAvgPool2d(x6)
    IN  Linear(self.fc1, Squeeze(x7))

----------------------------------------------------------------------------
(* SpecNet: a network is built from hparams and applied to one input *)

InitNet ==
    /\ hp \in [base_filters : 1..MaxFilters, num_classes : 1..MaxClasses]
    /\ xin \in {Tensor(<<n, 1, h, w>>) : n \in 1..MaxBatch, h \in 1..MaxHW, w \in 1..MaxHW}
    /\ training \in BOOLEAN
    /\ net = NoObject /\ yout = NoObject
    /\ RestData /\ RestTrain /\ RestTest

\* net = AudioNet(hparams)
NetConstruct ==
    /\ hp # NoObject /\ net = NoObject
    /\ net' = AudioNet_init(hp)
    /\ UNCHANGED <<hp, xin, training, yout>>
    /\ UNCHANGED <<dataVars, trainVars, testVars>>

\* y = net(x)
NetForward ==
    /\ net # NoObject /\ yout = NoObject
    /\ yout' = AudioNet_forward(net, xin, training)
    /\ UNCHANGED <<hp, xin, training, net>>
    /\ UNCHANGED <<dataVars, trainVars, testVars>>

NextNet == NetConstruct \/ NetForward

SpecNet == InitNet /\ [][NextNet]_vars

----------------------------------------------------------------------------
(* Claims about the network, checked under SpecNet *)

\* The least size that both max-pool(2) stages leave non-empty.
MinHW == CHOOSE h \in 1..MaxHW :
            /\ PoolOut(PoolOut(h, 2), 2) >= 1
            /\ \A g \in 1..(h - 1) : PoolOut(g, 2) < 1 \/ PoolOut(PoolOut(g, 2), 2) < 1

\* C3: for N >= 1, positive base_filters and num_classes and an input
\* (N,1,H,W) with H, W at least the minimum size, forward returns a tensor of
\* shape exactly (N, num_classes): the four padded convolutions preserve H
\* and W, each pool halves them (floor), the global pool makes them 1x1.
C3_ForwardShape ==
    (net # NoObject /\ xin.shape[3] >= MinHW /\ xin.shape[4] >= MinHW) =>
        LET N == xin.shape[1]
            H == xin.shape[3]
            W == xin.shape[4]
            a == Conv2d(net.conv2, Conv2d(net.conv1, xin))
            b == MaxPool2d(net.pool1, a)
            c == Conv2d(net.conv4, Conv2d(net.conv3, b))
            d == MaxPool2d(net.pool2, c)
        IN  /\ a = Tensor(<<N, hp.base_filters, H, W>>)
            /\ b = Tensor(<<N, hp.base_filters, H \div 2, W \div 2>>)
            /\ c = Tensor(<<N, 4 * hp.base_filters, H \div 2, W \div 2>>)
            /\ d = Tensor(<<N, 4 * hp.base_filters, (H \div 2) \div 2, (W \div 2) \div 2>>)
            /\ AudioNet_forward(net, xin, training) = Tensor(<<N, hp.num_classes>>)
            /\ yout # NoObject => yout = Tensor(<<N, hp.num_classes>>)

\* forward has returned for a non-square input of odd height, batch of 2.
C3_Witness ==
    /\ yout = Tensor(<<2, hp.num_classes>>)
    /\ xin.shape[3] = 5 /\ xin.shape[4] = 4 /\ xin.shape[1] = 2
    /\ hp.num_classes = 3 /\ training

\* C9: for every positive base_filters F the network is constructed and its
\* widths are consistent: channels 1 -> F -> F -> 2F -> 4F, each batchnorm
\* as wide as the convolution before it, each layer's input as wide as the
\* previous layer's output, and fc1 from exactly 4F to num_classes.
C9_WidthsConsistent ==
    net # NoObject =>
        LET F == hp.base_filters
        IN  /\ net.kind = "AudioNet"
            /\ net.conv1.in_channels = 1 /\ net.conv1.out_channels = F
            /\ net.conv2.out_channels = F
            /\ net.conv3.out_channels = 2 * F
            /\ net.conv4.out_channels = 4 * F
            /\ net.bn1.num_features = net.conv1.out_channels
            /\ net.bn2.num_features = net.conv2.out_channels
            /\ net.bn3.num_features = net.conv3.out_channels
            /\ net.bn4.num_features = net.conv4.out_channels
            /\ net.conv2.in_channels = net.conv1.out_channels
            /\ net.conv3.in_channels = net.conv2.out_channels
            /\ net.conv4.in_channels = net.conv3.out_channels
            /\ net.fc1.in_features = net.conv4.out_channels
            /\ net.fc1.in_features = 4 * F
            /\ net.fc1.out_features = hp.num_classes
            /\ (yout # NoObject /\ IsErr(yout)) =>
                  yout.at \notin {"conv channels", "batchnorm features", "linear features"}

\* A network of width 3 (no power of two) was built and applied.
C9_Witness ==
    /\ net # NoObject /\ hp.base_filters = 3 /\ net.fc1.in_features = 12
    /\ yout # NoObject /\ ~IsErr(yout)

----------------------------------------------------------------------------
(* The entry point train(cfg) *)

Val(v) == [kind |-> "value", v |-> v]
MissingVal == [kind |-> "missing"]

\* The fields train() and the objects it builds read from the configuration.
RequiredFields ==
    {"seed", "data.path", "data.sample_rate", "data.batch_size",
     "data.train_folds", "data.val_folds", "data.test_folds",
     "model.base_filters", "model.num_classes", "model.optim.lr"}

\* The fields wandb.config carries (hparams_default, lines 119-123).
SweepFields == {"model.base_filters", "model.optim.lr", "data.sample_rate"}

\* A missing field read with a fallback: cfg.get(field, default).
CfgGetOrDefault(c, field) ==
    IF c[field] = MissingVal THEN Val("default") ELSE c[field]

\* cfg.<field> on the composed (struct) configuration: a missing field raises.
CfgGet(c, field) ==
    IF c[field] = MissingVal THEN Err("ConfigError", field) ELSE c[field]

\* The statements of train(), by line, in program order.
Lines ==
    <<"l117", "l119", "l124", "l126", "l132", "l133", "l134", "l135",
      "l138", "l141", "l142", "l144", "l145", "l148", "l149", "l150">>

\* The same with seed_everything moved below the construction of the network.
LinesSeedLate ==
    <<"l117", "l119", "l124", "l126", "l132", "l133", "l134", "l135",
      "l138", "l141", "l142", "l145", "l148", "l144", "l149", "l150">>

NextIn(order, line) ==
    LET i == CHOOSE j \in DOMAIN order : order[j] = line
    IN  IF i = Len(order) THEN "done" ELSE order[i + 1]

AfterSeedLate(line) == NextIn(LinesSeedLate, line)

\* The statement train() runs after the one at line, when that one raised nothing.
After(line) == NextIn(Lines, line)

Env0 ==
    [events |-> <<>>, hparams_default |-> NoObject, wandb_config |-> NoObject,
     path |-> NoObject,
     train_data |-> NoObject, val_data |-> NoObject, test_data |-> NoObject,
     train_loader |-> NoObject, val_loader |-> NoObject, test_loader |-> NoObject,
     seeded |-> NoObject, wandb_logger |-> NoObject, audionet |-> NoObject,
     trainer |-> NoObject, fit |-> "not invoked", error |-> NoObject]

Raise(e, err) == [e EXCEPT !.error = err]

Did(e, what) == [e EXCEPT !.events = Append(@, what)]

\* The first exception among the values read, or NoObject.
FirstErr(vals) ==
    IF \E i \in DOMAIN vals : IsErr(vals[i])
    THEN vals[CHOOSE i \in DOMAIN vals : IsErr(vals[i]) /\ \A j \in 1..(i - 1) : ~IsErr(vals[j])]
    ELSE NoObject

\* line 117: logger.info(OmegaConf.to_yaml(cfg))
Train_log(c, e) == Did(e, "log")

\* lines 119-123: hparams_default = {...}
Train_hparams_default(c, e) ==
    LET bf == CfgGet(c, "model.base_filters")
        lr == CfgGet(c, "model.optim.lr")
        sr == CfgGet(c, "data.sample_rate")
        err == FirstErr(<<bf, lr, sr>>)
    IN  IF err # NoObject THEN Raise(e, err)
        ELSE [e EXCEPT !.hparams_default =
                [f \in SweepFields |-> CASE f = "model.base_filters" -> bf
                                         [] f = "model.optim.lr" -> lr
                                         [] f = "data.sample_rate" -> sr]]

\* line 124: wandb.init(config=hparams_default): the tracking session starts;
\* wandb.config holds the defaults, a sweep's values in place of them.
Train_wandb_init(c, e, sw) ==
    [Did(e, "wandb.init") EXCEPT
        !.wandb_config = [f \in SweepFields |->
                            IF sw[f] = MissingVal THEN e.hparams_default[f] ELSE sw[f]]]

\* lines 126-129: the three fields of cfg are overwritten from wandb.config.
Train_overwrite(c, e) ==
    [f \in DOMAIN c |-> IF f \in SweepFields THEN e.wandb_config[f] ELSE c[f]]

\* line 132: path = Path(get_original_cwd()) / Path(cfg.data.path)
Train_path(c, e) ==
    LET p == CfgGet(c, "data.path")
    IN  IF IsErr(p) THEN Raise(e, p) ELSE [e EXCEPT !.path = p]

\* The manifest train() reads: row i has fold csvFolds[i].
TrainRows(folds) ==
    [i \in 1..Len(folds) |-> [filename |-> FileName(i), fold |-> folds[i], target |-> 0]]

\* lines 133-135: ESC50Dataset(path=path, folds=cfg.data.<split>_folds);
\* sample_rate is not among the arguments, so the default applies.
Train_dataset(c, e, split, rows) ==
    LET f == CfgGet(c, "data." \o split \o "_folds")
    IN  IF IsErr(f) THEN Raise(e, f)
        ELSE [Did(e, split \o "_data") EXCEPT
                ![split \o "_data"] = ESC50Dataset_init(e.path.v, DefaultSampleRate, f.v, rows)]

\* ceil(n / b)
CeilDiv(n, b) == (n + b - 1) \div b

\* The train loader built as the other two are, without shuffle=True.
DataLoaderNoShuffle(dataset, batch_size, shuffle) ==
    [kind |-> "loader", dataset |-> dataset, batch_size |-> batch_size, shuffle |-> FALSE,
     len |-> CeilDiv(ESC50Dataset_len(dataset), batch_size)]

\* torch.utils.data.DataLoader(dataset, batch_size=..., shuffle=...): with
\* shuffle=True the RandomSampler refuses a dataset of length 0.
DataLoader(dataset, batch_size, shuffle) ==
    IF shuffle /\ ESC50Dataset_len(dataset) = 0
    THEN Err("ValueError", "num_samples should be a positive integer value")
    ELSE [kind |-> "loader", dataset |-> dataset, batch_size |-> batch_size, shuffle |-> shuffle,
          len |-> CeilDiv(ESC50Dataset_len(dataset), batch_size)]

\* lines 138-142: the three loaders; only the train loader shuffles.
Train_loader(c, e, split) ==
    LET b == CfgGet(c, "data.batch_size")
        l == DataLoader(e[split \o "_data"], b.v, split = "train")
    IN  IF IsErr(b) THEN Raise(e, b)
        ELSE IF IsErr(l) THEN Raise(e, l)
        ELSE [Did(e, split \o "_loader") EXCEPT ![split \o "_loader"] = l]

\* line 144: pl.seed_everything(cfg.seed)
Train_seed(c, e) ==
    LET sd == CfgGet(c, "seed")
    IN  IF IsErr(sd) THEN Raise(e, sd)
        ELSE [Did(e, "seed") EXCEPT !.seeded = [kind |-> "seed", value |-> sd.v]]

\* line 145: wandb_logger = pl.loggers.WandbLogger()
Train_wandb_logger(c, e) == [e EXCEPT !.wandb_logger = [kind |-> "WandbLogger"]]

\* line 148: audionet = AudioNet(cfg.model)
Train_audionet(c, e) ==
    LET bf == CfgGet(c, "model.base_filters")
        nc == CfgGet(c, "model.num_classes")
        err == FirstErr(<<bf, nc>>)
    IN  IF err # NoObject THEN Raise(e, err)
        ELSE [Did(e, "audionet") EXCEPT
                !.audionet = AudioNet_init([base_filters |-> bf.v, num_classes |-> nc.v])]

\* line 149: trainer = pl.Trainer(**cfg.trainer, logger=wandb_logger)
Train_trainer(c, e) == [e EXCEPT !.trainer = [kind |-> "Trainer", logger |-> e.wandb_logger]]

\* line 150: trainer.fit(audionet, train_loader, val_loader).  The trainer
\* refuses a loader of length 0; an item that cannot be loaded raises out of
\* the loop; test_loader is not among the arguments.
Train_fit(c, e, filesOk) ==
    LET inv == [Did(e, "fit") EXCEPT !.fit = "invoked"]
    IN  IF e.train_loader.len = 0 \/ e.val_loader.len = 0
        THEN Raise(inv, Err("ValueError", "Dataloader returned 0 length"))
        ELSE IF ~filesOk THEN Raise(inv, Err("LoadError", "getitem"))
        ELSE [inv EXCEPT !.fit = "completed"]

----------------------------------------------------------------------------
(* SpecTrain: one run of train(cfg) *)

SweepRates == {16000, 22050}

\* A configuration with every field, or with one of them missing.
Configs ==
    LET full == {[f \in RequiredFields |->
                    CASE f = "seed" -> Val(42)
                      [] f = "data.path" -> Val("data/ESC-50")
                      [] f = "data.sample_rate" -> Val(r)
                      [] f = "data.batch_size" -> Val(b)
                      [] f = "data.train_folds" -> Val(tf)
                      [] f = "data.val_folds" -> Val({4})
                      [] f = "data.test_folds" -> Val({5})
                      [] f = "model.base_filters" -> Val(32)
                      [] f = "model.num_classes" -> Val(50)
                      [] f = "model.optim.lr" -> Val("lr0")] :
                 r \in Rates, b \in {2}, tf \in {{1, 2, 3}}}
    IN  full \cup {[c EXCEPT ![f] = MissingVal] : c \in full, f \in RequiredFields}

\* What the sweep service supplies: nothing, or values for some fields.
Sweeps ==
    {[f \in SweepFields |->
        CASE f = "data.sample_rate" -> sr
          [] f = "model.base_filters" -> bf
          [] f = "model.optim.lr" -> lr] :
     sr \in {MissingVal} \cup {Val(r) : r \in SweepRates},
     bf \in {MissingVal, Val(16)},
     lr \in {MissingVal, Val("lr1")}}

\* Fold columns of the manifest: all five folds, or some of them absent.
FoldColumns == {<<1, 2, 3, 4, 5>>, <<1, 1, 2, 4>>, <<1, 5>>, <<4, 5>>}

InitTrain ==
    /\ cfg \in Configs
    /\ sweep \in Sweeps
    /\ csvFolds \in FoldColumns
    /\ audioOk \in BOOLEAN
    /\ tpc = "l117"
    /\ env = Env0
    /\ RestData /\ RestNet /\ RestTest

\* The statement at line ran and left e: the run goes on, or ends on the
\* exception (nothing in train() catches one).
Goes(line, e) ==
    /\ env' = e
    /\ tpc' = IF e.error # NoObject THEN "failed" ELSE After(line)

Fixed == UNCHANGED <<sweep, csvFolds, audioOk, dataVars, netVars, testVars>>

LogConfig == tpc = "l117" /\ Goes("l117", Train_log(cfg, env)) /\ UNCHANGED cfg /\ Fixed

HparamsDefault ==
    tpc = "l119" /\ Goes("l119", Train_hparams_default(cfg, env)) /\ UNCHANGED cfg /\ Fixed

WandbInit ==
    tpc = "l124" /\ Goes("l124", Train_wandb_init(cfg, env, sweep)) /\ UNCHANGED cfg /\ Fixed

SweepOverwrite ==
    /\ tpc = "l126"
    /\ cfg' = Train_overwrite(cfg, env)
    /\ Goes("l126", env)
    /\ Fixed

MakePath == tpc = "l132" /\ Goes("l132", Train_path(cfg, env)) /\ UNCHANGED cfg /\ Fixed

TrainData ==
    /\ tpc = "l133"
    /\ Goes("l133", Train_dataset(cfg, env, "train", TrainRows(csvFolds)))
    /\ UNCHANGED cfg /\ Fixed

ValData ==
    /\ tpc = "l134"
    /\ Goes("l134", Train_dataset(cfg, env, "val", TrainRows(csvFolds)))
    /\ UNCHANGED cfg /\ Fixed

TestData ==
    /\ tpc = "l135"
    /\ Goes("l135", Train_dataset(cfg, env, "test", TrainRows(csvFolds)))
    /\ UNCHANGED cfg /\ Fixed

TrainLoader == tpc = "l138" /\ Goes("l138", Train_loader(cfg, env, "train")) /\ UNCHANGED cfg /\ Fixed

ValLoader == tpc = "l141" /\ Goes("l141", Train_loader(cfg, env, "val")) /\ UNCHANGED cfg /\ Fixed

TestLoader == tpc = "l142" /\ Goes("l142", Train_loader(cfg, env, "test")) /\ UNCHANGED cfg /\ Fixed

SeedEverything == tpc = "l144" /\ Goes("l144", Train_seed(cfg, env)) /\ UNCHANGED cfg /\ Fixed

MakeWandbLogger == tpc = "l145" /\ Goes("l145", Train_wandb_logger(cfg, env)) /\ UNCHANGED cfg /\ Fixed

MakeAudioNet == tpc = "l148" /\ Goes("l148", Train_audionet(cfg, env)) /\ UNCHANGED cfg /\ Fixed

MakeTrainer == tpc = "l149" /\ Goes("l149", Train_trainer(cfg, env)) /\ UNCHANGED cfg /\ Fixed

Fit == tpc = "l150" /\ Goes("l150", Train_fit(cfg, env, audioOk)) /\ UNCHANGED cfg /\ Fixed

NextTrain ==
    \/ LogConfig \/ HparamsDefault \/ WandbInit \/ SweepOverwrite \/ MakePath
    \/ TrainData \/ ValData \/ TestData
    \/ TrainLoader \/ ValLoader \/ TestLoader
    \/ SeedEverything \/ MakeWandbLogger \/ MakeAudioNet \/ MakeTrainer \/ Fit

SpecTrain == InitTrain /\ [][NextTrain]_vars

----------------------------------------------------------------------------
(* Claims about the entry point, checked under SpecTrain *)

Splits == {"train", "val", "test"}

\* The datasets train() has constructed so far.
Datasets == {env[sp \o "_data"] : sp \in Splits} \ {NoObject}

Loaders == {env[sp \o "_loader"] : sp \in Splits} \ {NoObject}

Happened(what) == \E i \in DOMAIN env.events : env.events[i] = what

\* Whenever b happened, a had happened before it.
Precedes(a, b) ==
    \A j \in DOMAIN env.events :
        env.events[j] = b => \E i \in 1..(j - 1) : env.events[i] = a

DataEvents ==
    {"train_data", "val_data", "test_data", "train_loader", "val_loader", "test_loader"}

MissingFields == {f \in RequiredFields : cfg[f] = MissingVal}

\* The split's dataset exists and is empty.
EmptySplit(sp) ==
    /\ env[sp \o "_data"] # NoObject
    /\ ESC50Dataset_len(env[sp \o "_data"]) = 0

\* C4: every dataset the entry point constructs resamples to the configured
\* rate: data.sample_rate as it stands after any sweep overwrite is the
\* target rate of its Resample and MelSpectrogram transforms.
C4_ConfiguredRateUsed ==
    \A d \in Datasets :
        /\ d.resample.new_freq = cfg["data.sample_rate"].v
        /\ d.melspec.sample_rate = cfg["data.sample_rate"].v

\* C5 as stated: the configuration is logged first, seeding comes next and
\* precedes the construction of every dataset, loader and the network, and
\* fit comes last.
C5_SeedBeforeData ==
    /\ env.events # <<>> => env.events[1] = "log"
    /\ \A ev \in DataEvents \cup {"audionet", "fit"} : Precedes("seed", ev)
    /\ \A ev \in DataEvents \cup {"audionet"} : Precedes(ev, "fit")

\* C5 as the code has it: the configuration is logged first; the tracking
\* session starts; the datasets and loaders are constructed before the seeding; the seeding precedes the
\* construction of the network; fit comes last, after all of these.
C5_SeedBeforeNetwork ==
    /\ env.events # <<>> => env.events[1] = "log"
    /\ \A ev \in DataEvents : Precedes("wandb.init", ev) /\ Precedes(ev, "seed")
    /\ Precedes("log", "wandb.init")
    /\ Precedes("seed", "audionet")
    /\ \A ev \in DataEvents \cup {"seed", "audionet"} : Precedes(ev, "fit")
    /\ env.audionet # NoObject => env.seeded # NoObject
    /\ env.seeded # NoObject => \A sp \in Splits : env[sp \o "_loader"] # NoObject

\* A run went through to the end of fit.
C5_Witness ==
    /\ tpc = "done" /\ env.fit = "completed"
    /\ Happened("seed") /\ Happened("train_loader") /\ Happened("audionet")

C10_FailsBeforeTracking ==
    MissingFields # {} =>
        /\ ~Happened("wandb.init")
        /\ Datasets = {} /\ Loaders = {}
        /\ env.fit = "not invoked" /\ tpc # "done"

\* C10 as the code has it: with a required field missing the run fails at
\* the first read of that field, before fit is invoked, and nothing stands
\* in for the field.  Only for model.base_filters, model.optim.lr and
\* data.sample_rate does the failure precede the tracking session and the
\* datasets; for every other field the tracking session has started by then.
C10_FailsAtFirstRead ==
    \A f \in MissingFields :
        /\ env.fit = "not invoked" /\ tpc # "done"
        /\ (tpc = "failed" /\ env.error.type = "ConfigError") => env.error = Err("ConfigError", f)
        /\ f \in SweepFields =>
              /\ ~Happened("wandb.init") /\ Datasets = {} /\ Loaders = {}
              /\ tpc \in {"l117", "l119", "failed"}
        /\ (f \notin SweepFields /\ tpc = "failed") => Happened("wandb.init")
        /\ f = "data.path" => Datasets = {}
        /\ f = "data.batch_size" => Loaders = {}
        /\ f = "seed" => env.seeded = NoObject /\ env.audionet = NoObject
        /\ f = "model.num_classes" => env.audionet = NoObject

\* The seed is missing: the run failed on reading it, the tracking session
\* started and all three loaders built.
C10_Witness ==
    /\ cfg["seed"] = MissingVal
    /\ tpc = "failed" /\ env.error = Err("ConfigError", "seed")
    /\ Happened("wandb.init") /\ env.test_loader # NoObject

----------------------------------------------------------------------------
(* testAudioNet: the overfit regression test *)

NumSamples == 5         \* torch.rand(5, 1, 200, 100)
SampleH == 200
SampleW == 100
LabelRange == 10        \* torch.randint(0, 10, size=(5,))
MaxEpochs == 250        \* trainer.max_epochs=250
OverfitBatches == 1     \* overfit_batches=1
DefaultBatchSize == 1   \* DataLoader(data): batch_size is not given

\* torch.utils.data.DataLoader over n samples, in order: batch k (from 0)
\* holds the indices k*b .. min(n, (k+1)*b) - 1.
Batches(n, b) ==
    [k \in 1..CeilDiv(n, b) |->
        [j \in 1..(IF k * b <= n THEN b ELSE n - (k - 1) * b) |-> (k - 1) * b + j - 1]]

\* lines 18-20 and 26: the dataset of 5 samples and the loader over it.
Test_loader(labels) ==
    [kind |-> "loader", samples |-> NumSamples, labels |-> labels,
     batch_size |-> DefaultBatchSize,
     batches |-> Batches(NumSamples, DefaultBatchSize)]

\* overfit_batches=1: every epoch runs the first batch of the loader only.
EpochBatches(loader) == SubSeq(loader.batches, 1, OverfitBatches)

\* AudioNet.training_step(batch, batch_idx): forward on the batch, the
\* cross-entropy against its labels, logged as train_loss.  The value of the
\* loss is a floating-point number the model does not compute: it is either
\* at most 0.1 or above it.
TrainingStep_logits(network, batch) ==
    AudioNet_forward(network, Tensor(<<Len(batch), 1, SampleH, SampleW>>), TRUE)

\* A few label vectors out of the 10^5 the draw can give.
LabelVectors ==
    {[i \in 1..NumSamples |-> (i * m) % LabelRange] : m \in {0, 1, 3}}

InitTest ==
    /\ tt = [pc |-> "start", labels |-> <<>>, net |-> NoObject, loader |-> NoObject,
             epoch |-> 0, global_step |-> 0, batches |-> {}, logits |-> NoObject,
             train_loss |-> "none", verdict |-> "none"]
    /\ RestData /\ RestNet /\ RestTrain

Others == UNCHANGED <<dataVars, netVars, trainVars>>

\* lines 8-25: configuration, seed, data, network, trainer.
TestSetup ==
    /\ tt.pc = "start"
    /\ \E labels \in LabelVectors :
          tt' = [tt EXCEPT !.pc = "fit", !.labels = labels,
                           !.net = AudioNet_init([base_filters |-> 32, num_classes |-> LabelRange]),
                           !.loader = Test_loader(labels)]
    /\ Others

\* One epoch of trainer.fit: training_step on each batch of the epoch (there
\* is one), then the optimizer's step.
TrainingStep ==
    /\ tt.pc = "fit" /\ tt.epoch < MaxEpochs
    /\ LET bs == EpochBatches(tt.loader)
       IN  \E loss \in {"le_0_1", "gt_0_1"} :
             tt' = [tt EXCEPT !.epoch = @ + 1,
                              !.global_step = @ + Len(bs),
                              !.batches = @ \cup {bs[i] : i \in DOMAIN bs},
                              !.logits = TrainingStep_logits(tt.net, bs[Len(bs)]),
                              !.train_loss = loss]
    /\ Others

\* fit returns after max_epochs epochs.
FitReturns ==
    /\ tt.pc = "fit" /\ tt.epoch = MaxEpochs
    /\ tt' = [tt EXCEPT !.pc = "fitted"]
    /\ Others

\* line 29: assert trainer.logged_metrics["train_loss"].item() <= 0.1
TestAssert ==
    /\ tt.pc = "fitted"
    /\ tt' = [tt EXCEPT !.pc = "end",
                        !.verdict = IF tt.train_loss = "le_0_1" THEN "passed" ELSE "AssertionError"]
    /\ Others

NextTest == TestSetup \/ TrainingStep \/ FitReturns \/ TestAssert

SpecTest == InitTest /\ [][NextTest]_vars

\* C2: in the overfit scenario training performs 250 training steps, all on
\* the same single fixed batch containing the 5 samples, and the train_loss
\* logged after fit is at most 0.1.
C2_OverfitFiveSampleBatch ==
    /\ tt.global_step <= MaxEpochs
    /\ Cardinality(tt.batches) <= 1
    /\ \A b \in tt.batches : Len(b) = NumSamples
    /\ tt.pc \in {"fitted", "end"} =>
          /\ tt.global_step = MaxEpochs
          /\ tt.train_loss = "le_0_1"

====
